---- MODULE Spec2Model ----
(***************************************************************************)
(* Model of the batch endpoint of ocr-go: Handler.BatchProcess fans one    *)
(* goroutine out per uploaded file, gates them with a buffered channel     *)
(* used as a semaphore, lets each run Handler.processFile against the      *)
(* process-wide TesseractEngine, joins them with a WaitGroup and answers   *)
(* with the counted report.                                                *)
(*                                                                         *)
(* Four parts of the program are modelled on their own, each with its own  *)
(* specification: the preview of a recognized text (SpecPreview), the      *)
(* result building of ExtractTextWithBoxes (SpecEngine), the handlers      *)
(* ExtractText and VisualizeBoxes (SpecSingle), and main with the engine's *)
(* lifetime and the batch requests in flight (SpecServer).                 *)
(*                                                                         *)
(* A Go string is a sequence of bytes (UTF-8); the byte 0 stands for a      *)
(* white space. The image uploaded as files[i] is called image i.          *)
(***************************************************************************)
EXTENDS Integers, Sequences, FiniteSets, TLC

\* ---------------------------------------------------------------- bounds
\* Largest number of files uploaded in one batch request.
MaxFiles == 2
\* Largest number of characters of a recognized text given to the preview.
MaxTextLen == 110
\* Largest number of boxes gosseract returns for the image of one engine call.
MaxBoxes == 3
\* Largest number of batch requests the server handles at the same time.
MaxRequests == 2
\* Largest number of files of a batch request made to the server.
MaxBatch == 3

\* ------------------------------------------------------- program constants
\* semaphore := make(chan struct{}, 4)
maxConcurrency == 4
\* if len(ocrResult.FullText) > 100
PreviewLimit == 100
\* http.StatusOK, http.StatusBadRequest
StatusOK == 200
StatusBadRequest == 400
\* http.StatusInternalServerError
StatusInternalServerError == 500

Space == 0
Dot == 46
TruncationMarker == <<Dot, Dot, Dot>>

\* Names of the uploaded files, by position in the form.
FileNames == <<"a.png", "b.png", "c.png", "d.png", "e.png", "f.png", "g.png">>

\* Capacities of the admission gate the model is run with: the serialising
\* gate, a gate of two and the gate of the source.
Capacities == {1, 2, maxConcurrency}

VARIABLES
    formOK,     \* whether r.ParseMultipartForm accepts the request
    files,      \* r.MultipartForm.File["files"]: the sequence of file names
    capacity,   \* cap(semaphore)
    pcMain,     \* position of BatchProcess
    next,       \* index the dispatch loop of BatchProcess is at
    wg,         \* counter of the sync.WaitGroup
    semaphore,  \* number of tokens in the buffered channel
    pc,         \* position of each worker goroutine
    reqCtx,     \* r.Context(): "active", "canceled" or "deadline"
    itemCtx,    \* the context.WithTimeout of each worker
    clientImg,  \* image installed in the shared gosseract client (0: none)
    ocrResult,  \* processFile's local ocrResult of each worker
    results,    \* results []model.BatchResult
    outputs,    \* result files created under outputs/ (by item)
    response,   \* what was written to the http.ResponseWriter
    pvText,     \* preview on its own: the characters of ocrResult.FullText
    pvPreview,  \* preview on its own: result.Preview
    pvPc,       \* preview on its own: "off", "ready" or "done"
    egBoxes,    \* engine call on its own: the boxes GetBoundingBoxes returned
    egResult,   \* engine call on its own: the DetailedResult returned
    egPc,       \* engine call on its own: "off", "ready" or "done"
    shKind,     \* single-file request: "extract" (ExtractText) or "visualize"
    shIn,       \* single-file request: what the request and its environment hold
    shPc,       \* single-file request: position of the handler
    shEngineCalls, \* single-file request: calls of ExtractTextWithBoxes made
    shOutputs,  \* single-file request: files created under outputs/
    shResponse, \* single-file request: what was written to the ResponseWriter
    svPc,       \* server: position of main
    svEngine,   \* server: the TesseractEngine: "none", "open" or "closed"
    svReqs      \* server: the batch requests, each with its workers by phase

\* The state of the preview computation taken on its own.
previewVars == <<pvText, pvPreview, pvPc>>

\* The state of the result building of one engine call taken on its own.
engineVars == <<egBoxes, egResult, egPc>>

\* The state of one request to ExtractText or VisualizeBoxes.
singleVars == <<shKind, shIn, shPc, shEngineCalls, shOutputs, shResponse>>

\* The state of the process: main, the engine and the requests in flight.
serverVars == <<svPc, svEngine, svReqs>>

\* The state of the parts of the program that are modelled on their own.
pureVars == <<previewVars, engineVars, singleVars, serverVars>>

\* The state of a batch request.
batchVars == <<formOK, files, capacity, pcMain, next, wg, semaphore, pc, reqCtx,
               itemCtx, clientImg, ocrResult, results, outputs, response>>

vars == <<batchVars, pureVars>>

Workers == 1..Len(files)

\* ------------------------------------------------------------- the engine
IsSpace(c) == c = Space

RECURSIVE TrimLeft(_)
TrimLeft(w) ==
    IF w = <<>> THEN <<>>
    ELSE IF IsSpace(Head(w)) THEN TrimLeft(Tail(w)) ELSE w

RECURSIVE TrimRight(_)
TrimRight(w) ==
    IF w = <<>> THEN <<>>
    ELSE IF IsSpace(w[Len(w)]) THEN TrimRight(SubSeq(w, 1, Len(w) - 1)) ELSE w

\* strings.TrimSpace
TrimSpace(w) == TrimRight(TrimLeft(w))

\* strings.Join(parts, " ")
RECURSIVE Join(_)
Join(parts) ==
    IF parts = <<>> THEN <<>>
    ELSE IF Len(parts) = 1 THEN parts[1]
    ELSE parts[1] \o <<Space>> \o Join(Tail(parts))

\* What gosseract's GetBoundingBoxes(RIL_WORD) finds in image img: a blank
\* word, then img words made of the letter 64 + img padded by white space.
RawWords(img) ==
    [k \in 1..(img + 1) |-> IF k = 1 THEN <<Space>> ELSE <<Space, 64 + img, Space>>]

\* The loop of ExtractTextWithBoxes: the trimmed words that are not empty.
RECURSIVE KeptWords(_)
KeptWords(boxes) ==
    IF boxes = <<>> THEN <<>>
    ELSE LET word == TrimSpace(Head(boxes))
         IN  IF word = <<>> THEN KeptWords(Tail(boxes))
             ELSE <<word>> \o KeptWords(Tail(boxes))

\* The DetailedResult built from the boxes read for image img.
DetailedResult(img) ==
    LET textBoxes == KeptWords(RawWords(img))
    IN  [FullText |-> Join(textBoxes), TotalLines |-> Len(textBoxes)]

NoResult == [FullText |-> <<>>, TotalLines |-> 0]

\* One turn of the loop of ExtractTextWithBoxes: the TextBox made from one
\* gosseract box (the confidence is left out).
TextBoxOf(box) ==
    [Text |-> TrimSpace(box.Word),
     X |-> box.MinX,
     Y |-> box.MinY,
     Width |-> box.MaxX - box.MinX,
     Height |-> box.MaxY - box.MinY]

\* Faulty variant: the loop keeps the boxes whose word is blank.
RECURSIVE TextBoxesKeepsBlank(_)
TextBoxesKeepsBlank(boxes) ==
    IF boxes = <<>> THEN <<>>
    ELSE <<TextBoxOf(Head(boxes))>> \o TextBoxesKeepsBlank(Tail(boxes))

\* The loop of ExtractTextWithBoxes: textBoxes.
RECURSIVE TextBoxes(_)
TextBoxes(boxes) ==
    IF boxes = <<>> THEN <<>>
    ELSE IF TrimSpace(Head(boxes).Word) = <<>> THEN TextBoxes(Tail(boxes))
         ELSE <<TextBoxOf(Head(boxes))>> \o TextBoxes(Tail(boxes))

\* fullTextParts: the word appended next to each text box.
TextsOf(textBoxes) == [k \in 1..Len(textBoxes) |-> textBoxes[k].Text]

\* return &DetailedResult{...}, with its boxes (the language is left out).
DetailedResultOf(boxes) ==
    LET textBoxes == TextBoxes(boxes)
    IN  [FullText |-> Join(TextsOf(textBoxes)),
         Boxes |-> textBoxes,
         TotalLines |-> Len(textBoxes)]

NoDetailedResult == [FullText |-> <<>>, Boxes |-> <<>>, TotalLines |-> 0]

\* Words gosseract may return: empty, blank, plain, padded, with a space inside.
SampleWords == {<<>>, <<Space>>, <<97>>, <<Space, 98, Space>>, <<99, Space, 100>>}

\* Rectangles gosseract may return (image.Rectangle: Min and Max).
SampleRects ==
    {[MinX |-> 0, MinY |-> 0, MaxX |-> 3, MaxY |-> 1],
     [MinX |-> 2, MinY |-> 1, MaxX |-> 7, MaxY |-> 4]}

\* gosseract.BoundingBox values: a word and its rectangle.
RawBoxes ==
    {[Word |-> w, MinX |-> r.MinX, MinY |-> r.MinY, MaxX |-> r.MaxX, MaxY |-> r.MaxY] :
        w \in SampleWords, r \in SampleRects}

\* ------------------------------------------------------------ processFile
\* result := model.BatchResult{Filename: header.Filename}
NewResult(i) ==
    [Filename |-> files[i], Lines |-> 0, Success |-> FALSE, Error |-> "",
     Preview |-> <<>>, OutputFile |-> ""]

\* The zero value of model.BatchResult, as make([]model.BatchResult, n) leaves it.
ZeroResult ==
    [Filename |-> "", Lines |-> 0, Success |-> FALSE, Error |-> "",
     Preview |-> <<>>, OutputFile |-> ""]

\* Faulty variant: the line count is filled in before the error is looked at.
FailureKeepsLines(i, msg) == [NewResult(i) EXCEPT !.Error = msg, !.Lines = 1]

\* Faulty variant: the error message is not recorded in the result.
FailureNoMessage(i, msg) == NewResult(i)

Failure(i, msg) == [NewResult(i) EXCEPT !.Error = msg]

\* Create preview (first 100 characters)
PreviewOf(text) ==
    IF Len(text) > PreviewLimit
    THEN SubSeq(text, 1, PreviewLimit) \o TruncationMarker
    ELSE text

\* filepath.Base(outputPath): "ocr_<uuid>.json", the uuid left abstract.
OutputName == "ocr_uuid.json"

\* Faulty variant: an item whose result file cannot be created is a failure.
SuccessResultNeedsFile(i, ocr, saved) ==
    IF saved
    THEN [NewResult(i) EXCEPT !.Lines = ocr.TotalLines,
                              !.Success = TRUE,
                              !.Preview = PreviewOf(ocr.FullText),
                              !.OutputFile = OutputName]
    ELSE [NewResult(i) EXCEPT !.Error = "Failed to save result"]

SuccessResult(i, ocr, saved) ==
    [NewResult(i) EXCEPT !.Lines = ocr.TotalLines,
                         !.Success = TRUE,
                         !.Preview = PreviewOf(ocr.FullText),
                         !.OutputFile = IF saved THEN OutputName ELSE ""]

\* fmt.Sprintf("OCR failed: %v", ctx.Err())
CtxError(c) ==
    IF c = "deadline" THEN "OCR failed: context deadline exceeded"
    ELSE "OCR failed: context canceled"

\* ---------------------------------------------------------------- report
\* Faulty variant: a success is counted only when its result file was saved.
RECURSIVE CountSuccessBySavedFile(_)
CountSuccessBySavedFile(rs) ==
    IF rs = <<>> THEN 0
    ELSE (IF Head(rs).OutputFile # "" THEN 1 ELSE 0) + CountSuccessBySavedFile(Tail(rs))

RECURSIVE CountSuccess(_)
CountSuccess(rs) ==
    IF rs = <<>> THEN 0
    ELSE (IF Head(rs).Success THEN 1 ELSE 0) + CountSuccess(Tail(rs))

\* Faulty variant: the counting loop stops one element early.
RECURSIVE CountFailureOffByOne(_)
CountFailureOffByOne(rs) ==
    IF Len(rs) <= 1 THEN 0
    ELSE (IF Head(rs).Success THEN 0 ELSE 1) + CountFailureOffByOne(Tail(rs))

RECURSIVE CountFailure(_)
CountFailure(rs) ==
    IF rs = <<>> THEN 0
    ELSE (IF Head(rs).Success THEN 0 ELSE 1) + CountFailure(Tail(rs))

NoResponse ==
    [status |-> 0, error |-> "", TotalFiles |-> 0, SuccessCount |-> 0,
     FailureCount |-> 0, Results |-> <<>>]

ErrorResponse(status, msg) == [NoResponse EXCEPT !.status = status, !.error = msg]

\* What ExtractText and VisualizeBoxes write: a status with an error
\* message, or the status 200 with the result of the engine for the image.
SingleError(status, msg) == [status |-> status, error |-> msg, body |-> NoResult]

SingleOK(ocr) == [status |-> StatusOK, error |-> "", body |-> ocr]

NoSingleResponse == [status |-> 0, error |-> "", body |-> NoResult]

BatchProcessResponse(fs, rs) ==
    [NoResponse EXCEPT !.status = StatusOK,
                       !.TotalFiles = Len(fs),
                       !.SuccessCount = CountSuccess(rs),
                       !.FailureCount = CountFailure(rs),
                       !.Results = rs]

\* ------------------------------------------------------------------ Init
\* The parts modelled on their own are not running.
PreviewOff ==
    /\ pvText = <<>>
    /\ pvPreview = <<>>
    /\ pvPc = "off"

EngineOff ==
    /\ egBoxes = <<>>
    /\ egResult = NoDetailedResult
    /\ egPc = "off"

SingleOff ==
    /\ shKind = "off"
    /\ shIn = <<>>
    /\ shPc = "off"
    /\ shEngineCalls = 0
    /\ shOutputs = {}
    /\ shResponse = NoSingleResponse

ServerOff ==
    /\ svPc = "off"
    /\ svEngine = "none"
    /\ svReqs = <<>>

Init ==
    /\ formOK \in BOOLEAN
    /\ files \in {SubSeq(FileNames, 1, n) : n \in 0..(IF formOK THEN MaxFiles ELSE 0)}
    /\ capacity \in Capacities
    /\ pcMain = "parse"
    /\ next = 1
    /\ wg = 0
    /\ semaphore = 0
    /\ pc = [i \in Workers |-> "idle"]
    /\ reqCtx = "active"
    /\ itemCtx = [i \in Workers |-> "none"]
    /\ clientImg = 0
    /\ ocrResult = [i \in Workers |-> NoResult]
    /\ results = <<>>
    /\ outputs = {}
    /\ response = NoResponse
    /\ PreviewOff
    /\ EngineOff
    /\ SingleOff
    /\ ServerOff

\* ---------------------------------------------------------- BatchProcess
\* r.ParseMultipartForm fails.
ParseFail ==
    /\ pcMain = "parse"
    /\ ~formOK
    /\ response' = ErrorResponse(StatusBadRequest, "Failed to parse form")
    /\ pcMain' = "done"
    /\ UNCHANGED <<pureVars, formOK, files, capacity, next, wg, semaphore, pc, reqCtx, itemCtx,
                   clientImg, ocrResult, results, outputs>>

\* Faulty variant: an empty file list is answered with an empty report.
NoFilesAccepted ==
    /\ pcMain = "parse"
    /\ formOK
    /\ Len(files) = 0
    /\ response' = BatchProcessResponse(files, <<>>)
    /\ pcMain' = "done"
    /\ UNCHANGED <<pureVars, formOK, files, capacity, next, wg, semaphore, pc, reqCtx, itemCtx,
                   clientImg, ocrResult, results, outputs>>

\* len(files) == 0
NoFiles ==
    /\ pcMain = "parse"
    /\ formOK
    /\ Len(files) = 0
    /\ response' = ErrorResponse(StatusBadRequest, "No files uploaded")
    /\ pcMain' = "done"
    /\ UNCHANGED <<pureVars, formOK, files, capacity, next, wg, semaphore, pc, reqCtx, itemCtx,
                   clientImg, ocrResult, results, outputs>>

\* results := make([]model.BatchResult, len(files)); the gate and the group.
Begin ==
    /\ pcMain = "parse"
    /\ formOK
    /\ Len(files) > 0
    /\ results' = [i \in Workers |-> ZeroResult]
    /\ pcMain' = "dispatch"
    /\ UNCHANGED <<pureVars, formOK, files, capacity, next, wg, semaphore, pc, reqCtx, itemCtx,
                   clientImg, ocrResult, outputs, response>>

\* One turn of the loop: wg.Add(1); go func(index, header) {...}(i, fileHeader)
Dispatch ==
    /\ pcMain = "dispatch"
    /\ wg' = wg + 1
    /\ pc' = [pc EXCEPT ![next] = "spawned"]
    /\ next' = next + 1
    /\ pcMain' = IF next = Len(files) THEN "wait" ELSE "dispatch"
    /\ UNCHANGED <<pureVars, formOK, files, capacity, semaphore, reqCtx, itemCtx, clientImg,
                   ocrResult, results, outputs, response>>

\* Faulty variant: the handler does not wait for the group.
WaitNoBarrier ==
    /\ pcMain = "wait"
    /\ pcMain' = "count"
    /\ UNCHANGED <<pureVars, formOK, files, capacity, next, wg, semaphore, pc, reqCtx, itemCtx,
                   clientImg, ocrResult, results, outputs, response>>

\* wg.Wait() returns.
Wait ==
    /\ pcMain = "wait"
    /\ wg = 0
    /\ pcMain' = "count"
    /\ UNCHANGED <<pureVars, formOK, files, capacity, next, wg, semaphore, pc, reqCtx, itemCtx,
                   clientImg, ocrResult, results, outputs, response>>

\* The counting loop and h.respondJSON(w, http.StatusOK, response).
Respond ==
    /\ pcMain = "count"
    /\ response' = BatchProcessResponse(files, results)
    /\ pcMain' = "done"
    /\ UNCHANGED <<pureVars, formOK, files, capacity, next, wg, semaphore, pc, reqCtx, itemCtx,
                   clientImg, ocrResult, results, outputs>>

\* ------------------------------------------------------------ the workers
\* Faulty variant: results are collected in completion order (append) instead of by index.
ReturnByCompletion(i, result) ==
    LET k == Cardinality({j \in Workers : pc[j] \in {"release", "wgdone", "exited"}}) + 1
    IN  /\ results' = [results EXCEPT ![k] = result]
        /\ itemCtx' = [itemCtx EXCEPT ![i] = "none"]
        /\ pc' = [pc EXCEPT ![i] = "release"]

\* Faulty variant: the slot is given back on the success path only (no defer).
ReturnLeaksOnFailure(i, result) ==
    /\ results' = [results EXCEPT ![i] = result]
    /\ itemCtx' = [itemCtx EXCEPT ![i] = "none"]
    /\ pc' = [pc EXCEPT ![i] = IF result.Success THEN "release" ELSE "wgdone"]

\* Faulty variant: the goroutine reads the loop's index variable instead of
\* its own copy of it.
ReturnCapturedIndex(i, result) ==
    /\ results' = [results EXCEPT ![IF next > Len(files) THEN Len(files) ELSE next] = result]
    /\ itemCtx' = [itemCtx EXCEPT ![i] = "none"]
    /\ pc' = [pc EXCEPT ![i] = "release"]

\* A return of processFile: the deferred cancel() ends the item's context,
\* the goroutine stores the value in results[index].
Return(i, result) ==
    /\ results' = [results EXCEPT ![i] = result]
    /\ itemCtx' = [itemCtx EXCEPT ![i] = "none"]
    /\ pc' = [pc EXCEPT ![i] = "release"]

\* Faulty variant: the worker does not wait for a free slot.
AcquireUngated(i) ==
    /\ pc[i] = "spawned"
    /\ semaphore' = semaphore + 1
    /\ pc' = [pc EXCEPT ![i] = "open"]
    /\ UNCHANGED <<pureVars, formOK, files, capacity, pcMain, next, wg, reqCtx, itemCtx,
                   clientImg, ocrResult, results, outputs, response>>

\* semaphore <- struct{}{}
Acquire(i) ==
    /\ pc[i] = "spawned"
    /\ semaphore < capacity
    /\ semaphore' = semaphore + 1
    /\ pc' = [pc EXCEPT ![i] = "open"]
    /\ UNCHANGED <<pureVars, formOK, files, capacity, pcMain, next, wg, reqCtx, itemCtx,
                   clientImg, ocrResult, results, outputs, response>>

\* Faulty variant: a file that cannot be opened is reported as an invalid image.
OpenFileAsInvalidImage(i) ==
    /\ pc[i] = "open"
    /\ \E ok \in BOOLEAN :
         IF ok
         THEN /\ pc' = [pc EXCEPT ![i] = "decode"]
              /\ UNCHANGED <<results, itemCtx>>
         ELSE Return(i, Failure(i, "Invalid image"))
    /\ UNCHANGED <<pureVars, formOK, files, capacity, pcMain, next, wg, semaphore, reqCtx,
                   clientImg, ocrResult, outputs, response>>

\* file, err := header.Open()
OpenFile(i) ==
    /\ pc[i] = "open"
    /\ \E ok \in BOOLEAN :
         IF ok
         THEN /\ pc' = [pc EXCEPT ![i] = "decode"]
              /\ UNCHANGED <<results, itemCtx>>
         ELSE Return(i, Failure(i, "Failed to open file"))
    /\ UNCHANGED <<pureVars, formOK, files, capacity, pcMain, next, wg, semaphore, reqCtx,
                   clientImg, ocrResult, outputs, response>>

\* Faulty variant: the item's context is derived from context.Background()
\* instead of the request's context.
DecodeDetached(i) ==
    /\ pc[i] = "decode"
    /\ \E ok \in BOOLEAN :
         IF ok
         THEN /\ pc' = [pc EXCEPT ![i] = "entry"]
              /\ itemCtx' = [itemCtx EXCEPT ![i] = "active"]
              /\ UNCHANGED results
         ELSE Return(i, Failure(i, "Invalid image"))
    /\ UNCHANGED <<pureVars, formOK, files, capacity, pcMain, next, wg, semaphore, reqCtx,
                   clientImg, ocrResult, outputs, response>>

\* img, _, err := image.Decode(file), then context.WithTimeout(ctx, 30s):
\* the item's context is born done when the request's context is done.
Decode(i) ==
    /\ pc[i] = "decode"
    /\ \E ok \in BOOLEAN :
         IF ok
         THEN /\ pc' = [pc EXCEPT ![i] = "entry"]
              /\ itemCtx' = [itemCtx EXCEPT ![i] = reqCtx]
              /\ UNCHANGED results
         ELSE Return(i, Failure(i, "Invalid image"))
    /\ UNCHANGED <<pureVars, formOK, files, capacity, pcMain, next, wg, semaphore, reqCtx,
                   clientImg, ocrResult, outputs, response>>

\* Faulty variant: the engine does not look at the context when it is entered.
EngineEntryNoCheck(i) ==
    /\ pc[i] = "entry"
    /\ pc' = [pc EXCEPT ![i] = "setimage"]
    /\ UNCHANGED <<pureVars, formOK, files, capacity, pcMain, next, wg, semaphore, reqCtx,
                   itemCtx, clientImg, ocrResult, results, outputs, response>>

\* Faulty variant: the engine installs the image before it looks at the context.
EngineEntryInstallsFirst(i) ==
    /\ pc[i] = "entry"
    /\ IF itemCtx[i] = "active"
       THEN /\ pc' = [pc EXCEPT ![i] = "setimage"]
            /\ UNCHANGED <<results, itemCtx, clientImg>>
       ELSE /\ Return(i, Failure(i, CtxError(itemCtx[i])))
            /\ clientImg' = i
    /\ UNCHANGED <<pureVars, formOK, files, capacity, pcMain, next, wg, semaphore, reqCtx,
                   ocrResult, outputs, response>>

\* ExtractTextWithBoxes: select { case <-ctx.Done(): return nil, ctx.Err() }
EngineEntry(i) ==
    /\ pc[i] = "entry"
    /\ IF itemCtx[i] = "active"
       THEN /\ pc' = [pc EXCEPT ![i] = "setimage"]
            /\ UNCHANGED <<results, itemCtx>>
       ELSE Return(i, Failure(i, CtxError(itemCtx[i])))
    /\ UNCHANGED <<pureVars, formOK, files, capacity, pcMain, next, wg, semaphore, reqCtx,
                   clientImg, ocrResult, outputs, response>>

\* e.client.SetImageFromImage(img) on the client all workers share.
SetImage(i) ==
    /\ pc[i] = "setimage"
    /\ \E ok \in BOOLEAN :
         IF ok
         THEN /\ clientImg' = i
              /\ pc' = [pc EXCEPT ![i] = "getboxes"]
              /\ UNCHANGED <<results, itemCtx>>
         ELSE /\ Return(i, Failure(i, "OCR failed: failed to set image"))
              /\ UNCHANGED clientImg
    /\ UNCHANGED <<pureVars, formOK, files, capacity, pcMain, next, wg, semaphore, reqCtx,
                   ocrResult, outputs, response>>

\* Faulty variant: the slot is given back when recognition ends, before the
\* result file is written.
GetBoxesGivesSlotBack(i) ==
    /\ pc[i] = "getboxes"
    /\ \E ok \in BOOLEAN :
         IF ok
         THEN /\ ocrResult' = [ocrResult EXCEPT ![i] = DetailedResult(clientImg)]
              /\ semaphore' = semaphore - 1
              /\ pc' = [pc EXCEPT ![i] = "persist"]
              /\ UNCHANGED <<results, itemCtx>>
         ELSE /\ Return(i, Failure(i, "OCR failed: failed to get bounding boxes"))
              /\ UNCHANGED <<ocrResult, semaphore>>
    /\ UNCHANGED <<pureVars, formOK, files, capacity, pcMain, next, wg, reqCtx,
                   clientImg, outputs, response>>

\* e.client.GetBoundingBoxes(RIL_WORD) reads the image the client holds now;
\* the rest of ExtractTextWithBoxes builds the DetailedResult from it.
GetBoxes(i) ==
    /\ pc[i] = "getboxes"
    /\ \E ok \in BOOLEAN :
         IF ok
         THEN /\ ocrResult' = [ocrResult EXCEPT ![i] = DetailedResult(clientImg)]
              /\ pc' = [pc EXCEPT ![i] = "persist"]
              /\ UNCHANGED <<results, itemCtx>>
         ELSE /\ Return(i, Failure(i, "OCR failed: failed to get bounding boxes"))
              /\ UNCHANGED ocrResult
    /\ UNCHANGED <<pureVars, formOK, files, capacity, pcMain, next, wg, semaphore, reqCtx,
                   clientImg, outputs, response>>

\* Lines 106-132: the success result, os.Create(outputPath), return.
Persist(i) ==
    /\ pc[i] = "persist"
    /\ \E saved \in BOOLEAN :
         /\ Return(i, SuccessResult(i, ocrResult[i], saved))
         /\ outputs' = IF saved THEN outputs \cup {i} ELSE outputs
    /\ ocrResult' = [ocrResult EXCEPT ![i] = NoResult]
    /\ UNCHANGED <<pureVars, formOK, files, capacity, pcMain, next, wg, semaphore, reqCtx,
                   clientImg, response>>

\* Faulty variant: the worker exits without giving its slot back.
ReleaseLeak(i) ==
    /\ pc[i] = "release"
    /\ pc' = [pc EXCEPT ![i] = "wgdone"]
    /\ UNCHANGED <<pureVars, formOK, files, capacity, pcMain, next, wg, semaphore, reqCtx,
                   itemCtx, clientImg, ocrResult, results, outputs, response>>

\* defer func() { <-semaphore }()
Release(i) ==
    /\ pc[i] = "release"
    /\ semaphore' = semaphore - 1
    /\ pc' = [pc EXCEPT ![i] = "wgdone"]
    /\ UNCHANGED <<pureVars, formOK, files, capacity, pcMain, next, wg, reqCtx, itemCtx,
                   clientImg, ocrResult, results, outputs, response>>

\* defer wg.Done()
Done(i) ==
    /\ pc[i] = "wgdone"
    /\ wg' = wg - 1
    /\ pc' = [pc EXCEPT ![i] = "exited"]
    /\ UNCHANGED <<pureVars, formOK, files, capacity, pcMain, next, semaphore, reqCtx, itemCtx,
                   clientImg, ocrResult, results, outputs, response>>

\* -------------------------------------------------------- the environment
\* Faulty variant: the workers share one context.WithTimeout, so the timer
\* ends the context of every item that has one.
DeadlineExpireShared(i) ==
    /\ itemCtx[i] = "active"
    /\ itemCtx' = [j \in Workers |-> IF itemCtx[j] = "active" THEN "deadline" ELSE itemCtx[j]]
    /\ UNCHANGED <<pureVars, formOK, files, capacity, pcMain, next, wg, semaphore, pc, reqCtx,
                   clientImg, ocrResult, results, outputs, response>>

\* The 30 s timer of one item's context fires.
DeadlineExpire(i) ==
    /\ itemCtx[i] = "active"
    /\ itemCtx' = [itemCtx EXCEPT ![i] = "deadline"]
    /\ UNCHANGED <<pureVars, formOK, files, capacity, pcMain, next, wg, semaphore, pc, reqCtx,
                   clientImg, ocrResult, results, outputs, response>>

\* The request's context ends while the handler runs: the client went away
\* ("canceled") or the router's Timeout middleware fired ("deadline"). Every
\* live context derived from it ends with the same error.
CancelRequest ==
    /\ pcMain # "done"
    /\ reqCtx = "active"
    /\ \E e \in {"canceled", "deadline"} :
         /\ reqCtx' = e
         /\ itemCtx' = [i \in Workers |-> IF itemCtx[i] = "active" THEN e ELSE itemCtx[i]]
    /\ UNCHANGED <<pureVars, formOK, files, capacity, pcMain, next, wg, semaphore, pc,
                   clientImg, ocrResult, results, outputs, response>>

MainStep ==
    \/ ParseFail
    \/ NoFiles
    \/ Begin
    \/ Dispatch
    \/ Wait
    \/ Respond

WorkerStep(i) ==
    /\ i \in Workers
    /\ \/ Acquire(i)
       \/ OpenFile(i)
       \/ Decode(i)
       \/ EngineEntry(i)
       \/ SetImage(i)
       \/ GetBoxes(i)
       \/ Persist(i)
       \/ Release(i)
       \/ Done(i)

Next ==
    \/ ParseFail
    \/ NoFiles
    \/ Begin
    \/ Dispatch
    \/ Wait
    \/ Respond
    \/ CancelRequest
    \/ \E i \in Workers :
         \/ Acquire(i)
         \/ OpenFile(i)
         \/ Decode(i)
         \/ EngineEntry(i)
         \/ SetImage(i)
         \/ GetBoxes(i)
         \/ Persist(i)
         \/ Release(i)
         \/ Done(i)
         \/ DeadlineExpire(i)

Spec == Init /\ [][Next]_vars

\* The Go scheduler runs every runnable goroutine, a send on the buffered
\* channel completes once a slot is free, and every call a worker makes
\* (file, decoder, engine, disk) returns. Nothing obliges the request to be
\* cancelled or a timer to fire.
FairSpec ==
    /\ Init
    /\ [][Next]_vars
    /\ WF_vars(MainStep)
    /\ \A i \in 1..MaxFiles : WF_vars(WorkerStep(i))

\* ---------------------------------------------------- the preview alone
\* The UTF-8 bytes of one character: one byte below 128, two bytes below 2048.
Utf8(c) == IF c < 128 THEN <<c>> ELSE <<192 + (c \div 64), 128 + (c % 64)>>

\* The Go string of a sequence of characters.
RECURSIVE Utf8String(_)
Utf8String(chars) ==
    IF chars = <<>> THEN <<>> ELSE Utf8(Head(chars)) \o Utf8String(Tail(chars))

\* Recognized texts: n characters, the first k of them the letter a (97),
\* the others the letter n with tilde (241) that Spanish text holds.
TextOf(n, k) == [p \in 1..n |-> IF p <= k THEN 97 ELSE 241]

\* No batch request is running.
BatchIdle ==
    /\ formOK = FALSE
    /\ files = <<>>
    /\ capacity = maxConcurrency
    /\ pcMain = "done"
    /\ next = 1
    /\ wg = 0
    /\ semaphore = 0
    /\ pc = <<>>
    /\ reqCtx = "active"
    /\ itemCtx = <<>>
    /\ clientImg = 0
    /\ ocrResult = <<>>
    /\ results = <<>>
    /\ outputs = {}
    /\ response = NoResponse

InitPreview ==
    /\ BatchIdle
    /\ pvText \in {TextOf(n, k) : n \in 0..MaxTextLen, k \in 0..MaxTextLen}
    /\ pvPreview = <<>>
    /\ pvPc = "ready"
    /\ EngineOff
    /\ SingleOff
    /\ ServerOff

\* processFile, lines 109-114, on the Go string of pvText.
MakePreview ==
    /\ pvPc = "ready"
    /\ pvPreview' = PreviewOf(Utf8String(pvText))
    /\ pvPc' = "done"
    /\ UNCHANGED <<batchVars, pvText, engineVars, singleVars, serverVars>>

NextPreview == MakePreview

SpecPreview == InitPreview /\ [][NextPreview]_vars

\* ------------------------------------------------ the engine call alone
InitEngine ==
    /\ BatchIdle
    /\ PreviewOff
    /\ egBoxes \in UNION {[1..n -> RawBoxes] : n \in 0..MaxBoxes}
    /\ egResult = NoDetailedResult
    /\ egPc = "ready"
    /\ SingleOff
    /\ ServerOff

\* ExtractTextWithBoxes, lines 77-105, on the boxes GetBoundingBoxes returned.
BuildResult ==
    /\ egPc = "ready"
    /\ egResult' = DetailedResultOf(egBoxes)
    /\ egPc' = "done"
    /\ UNCHANGED <<batchVars, previewVars, egBoxes, singleVars, serverVars>>

NextEngine == BuildResult

SpecEngine == InitEngine /\ [][NextEngine]_vars

\* ------------------------------------------- the single-file handlers alone
\* What a request to ExtractText or VisualizeBoxes and its environment hold:
\* whether the form parses, has a "file" part, decodes to image img; the
\* state of r.Context() when the engine is entered; how the engine call and
\* the creation and the encoding of the result file end.
SingleInputs ==
    [formOK : BOOLEAN, hasFile : BOOLEAN, decodes : BOOLEAN, img : {1, 2},
     ctx : {"active", "canceled", "deadline"},
     engine : {"ok", "OCR failed: failed to set image",
               "OCR failed: failed to get bounding boxes"},
     createOK : BOOLEAN, encodeOK : BOOLEAN]

InitSingle ==
    /\ BatchIdle
    /\ PreviewOff
    /\ EngineOff
    /\ ServerOff
    /\ shKind \in {"extract", "visualize"}
    /\ shIn \in SingleInputs
    /\ shPc = "parse"
    /\ shEngineCalls = 0
    /\ shOutputs = {}
    /\ shResponse = NoSingleResponse

\* The handler writes a response and returns.
SingleAnswer(resp) ==
    /\ shResponse' = resp
    /\ shPc' = "done"

\* r.ParseMultipartForm(10 << 20)
SingleParse ==
    /\ shPc = "parse"
    /\ IF shIn.formOK
       THEN shPc' = "formfile" /\ UNCHANGED shResponse
       ELSE SingleAnswer(SingleError(StatusBadRequest, "Failed to parse form"))
    /\ UNCHANGED <<batchVars, previewVars, engineVars, serverVars,
                   shKind, shIn, shEngineCalls, shOutputs>>

\* file, header, err := r.FormFile("file")
SingleFormFile ==
    /\ shPc = "formfile"
    /\ IF shIn.hasFile
       THEN shPc' = "decode" /\ UNCHANGED shResponse
       ELSE SingleAnswer(SingleError(StatusBadRequest, "No file uploaded"))
    /\ UNCHANGED <<batchVars, previewVars, engineVars, serverVars,
                   shKind, shIn, shEngineCalls, shOutputs>>

\* Faulty variant: the error of image.Decode is not looked at.
SingleDecodeIgnoresError ==
    /\ shPc = "decode"
    /\ shPc' = "engine"
    /\ UNCHANGED <<batchVars, previewVars, engineVars, serverVars,
                   shKind, shIn, shEngineCalls, shOutputs, shResponse>>

\* img, _, err := image.Decode(file)
SingleDecode ==
    /\ shPc = "decode"
    /\ IF shIn.decodes
       THEN shPc' = "engine" /\ UNCHANGED shResponse
       ELSE SingleAnswer(SingleError(StatusBadRequest, "Invalid image file"))
    /\ UNCHANGED <<batchVars, previewVars, engineVars, serverVars,
                   shKind, shIn, shEngineCalls, shOutputs>>

\* result, err := h.engine.ExtractTextWithBoxes(ctx, img)
SingleEngineCall ==
    /\ shPc = "engine"
    /\ shEngineCalls' = shEngineCalls + 1
    /\ IF shIn.ctx # "active"
       THEN SingleAnswer(SingleError(StatusInternalServerError, CtxError(shIn.ctx)))
       ELSE IF shIn.engine # "ok"
       THEN SingleAnswer(SingleError(StatusInternalServerError, shIn.engine))
       ELSE shPc' = "save" /\ UNCHANGED shResponse
    /\ UNCHANGED <<batchVars, previewVars, engineVars, serverVars, shKind, shIn, shOutputs>>

\* ExtractText: os.Create(outputPath); the result is encoded when it worked.
ExtractSave ==
    /\ shPc = "save"
    /\ shKind = "extract"
    /\ shOutputs' = IF shIn.createOK THEN shOutputs \cup {"ocr_uuid.json"} ELSE shOutputs
    /\ shPc' = "respond"
    /\ UNCHANGED <<batchVars, previewVars, engineVars, serverVars,
                   shKind, shIn, shEngineCalls, shResponse>>

\* VisualizeBoxes: the boxes are drawn, then os.Create(outputPath).
VisualizeSave ==
    /\ shPc = "save"
    /\ shKind = "visualize"
    /\ IF shIn.createOK
       THEN /\ shOutputs' = shOutputs \cup {"boxes_uuid.png"}
            /\ shPc' = "encode"
            /\ UNCHANGED shResponse
       ELSE /\ SingleAnswer(SingleError(StatusInternalServerError, "Failed to save image"))
            /\ UNCHANGED shOutputs
    /\ UNCHANGED <<batchVars, previewVars, engineVars, serverVars,
                   shKind, shIn, shEngineCalls>>

\* VisualizeBoxes: png.Encode(outputFile, rgba)
VisualizeEncode ==
    /\ shPc = "encode"
    /\ IF shIn.encodeOK
       THEN shPc' = "respond" /\ UNCHANGED shResponse
       ELSE SingleAnswer(SingleError(StatusInternalServerError, "Failed to encode image"))
    /\ UNCHANGED <<batchVars, previewVars, engineVars, serverVars,
                   shKind, shIn, shEngineCalls, shOutputs>>

\* h.respondJSON(w, http.StatusOK, response)
SingleRespond ==
    /\ shPc = "respond"
    /\ SingleAnswer(SingleOK(DetailedResult(shIn.img)))
    /\ UNCHANGED <<batchVars, previewVars, engineVars, serverVars,
                   shKind, shIn, shEngineCalls, shOutputs>>

NextSingle ==
    \/ SingleParse
    \/ SingleFormFile
    \/ SingleDecode
    \/ SingleEngineCall
    \/ ExtractSave
    \/ VisualizeSave
    \/ VisualizeEncode
    \/ SingleRespond

SpecSingle == InitSingle /\ [][NextSingle]_vars

\* ------------------------------------------------------ the process alone
\* A batch request of the server: its workers counted by phase. waiting:
\* started, no slot yet; held: holds a slot of the request's gate, before
\* the engine call; engine: inside ExtractTextWithBoxes; exited.
FreeRequest == [phase |-> "free", waiting |-> 0, held |-> 0, engine |-> 0, exited |-> 0]

Requests == 1..MaxRequests

\* Number of calls of ExtractTextWithBoxes active on the engine, over the
\* first k requests.
RECURSIVE EngineCalls(_)
EngineCalls(k) == IF k = 0 THEN 0 ELSE svReqs[k].engine + EngineCalls(k - 1)

\* The process runs: main has not returned and log.Fatalf was not called.
Alive == svPc \in {"serving", "stopping"}

InitServer ==
    /\ BatchIdle
    /\ PreviewOff
    /\ EngineOff
    /\ SingleOff
    /\ svPc = "start"
    /\ svEngine = "none"
    /\ svReqs = [r \in Requests |-> FreeRequest]

\* engine, err := ocr.NewTesseractEngine(lang); defer engine.Close(); the
\* router is built and the goroutine of srv.ListenAndServe is started.
StartEngine ==
    /\ svPc = "start"
    /\ \E ok \in BOOLEAN :
         IF ok
         THEN svEngine' = "open" /\ svPc' = "serving"
         ELSE svPc' = "killed" /\ UNCHANGED svEngine
    /\ UNCHANGED <<batchVars, previewVars, engineVars, singleVars, svReqs>>

\* srv.ListenAndServe fails: log.Fatalf ends the process, no deferred call runs.
ListenFail ==
    /\ svPc = "serving"
    /\ svPc' = "killed"
    /\ UNCHANGED <<batchVars, previewVars, engineVars, singleVars, svEngine, svReqs>>

\* The server hands a batch request of n files to BatchProcess, which makes
\* the request's own gate and starts one worker per file.
Accept(r) ==
    /\ svPc = "serving"
    /\ svReqs[r].phase = "free"
    /\ \E n \in 1..MaxBatch :
         svReqs' = [svReqs EXCEPT ![r] = [FreeRequest EXCEPT !.phase = "running",
                                                             !.waiting = n]]
    /\ UNCHANGED <<batchVars, previewVars, engineVars, singleVars, svPc, svEngine>>

\* semaphore <- struct{}{} on the gate of request r.
Admit(r) ==
    /\ Alive
    /\ svReqs[r].waiting > 0
    /\ svReqs[r].held + svReqs[r].engine < maxConcurrency
    /\ svReqs' = [svReqs EXCEPT ![r].waiting = @ - 1, ![r].held = @ + 1]
    /\ UNCHANGED <<batchVars, previewVars, engineVars, singleVars, svPc, svEngine>>

\* processFile reaches h.engine.ExtractTextWithBoxes(ctx, img).
EnterEngine(r) ==
    /\ Alive
    /\ svReqs[r].held > 0
    /\ svReqs' = [svReqs EXCEPT ![r].held = @ - 1, ![r].engine = @ + 1]
    /\ UNCHANGED <<batchVars, previewVars, engineVars, singleVars, svPc, svEngine>>

\* processFile returns before the engine call (open or decode failed); the
\* worker stores the result, gives its slot back and exits.
SkipEngine(r) ==
    /\ Alive
    /\ svReqs[r].held > 0
    /\ svReqs' = [svReqs EXCEPT ![r].held = @ - 1, ![r].exited = @ + 1]
    /\ UNCHANGED <<batchVars, previewVars, engineVars, singleVars, svPc, svEngine>>

\* The engine call returns; processFile ends, the worker stores the result,
\* gives its slot back and exits.
LeaveEngine(r) ==
    /\ Alive
    /\ svReqs[r].engine > 0
    /\ svReqs' = [svReqs EXCEPT ![r].engine = @ - 1, ![r].exited = @ + 1]
    /\ UNCHANGED <<batchVars, previewVars, engineVars, singleVars, svPc, svEngine>>

\* wg.Wait() returns, BatchProcess writes the report and returns.
Answer(r) ==
    /\ Alive
    /\ svReqs[r].phase = "running"
    /\ svReqs[r].waiting = 0 /\ svReqs[r].held = 0 /\ svReqs[r].engine = 0
    /\ svReqs' = [svReqs EXCEPT ![r] = [FreeRequest EXCEPT !.phase = "answered"]]
    /\ UNCHANGED <<batchVars, previewVars, engineVars, singleVars, svPc, svEngine>>

\* <-quit: SIGINT or SIGTERM; srv.Shutdown(ctx) closes the listeners.
Signal ==
    /\ svPc = "serving"
    /\ svPc' = "stopping"
    /\ UNCHANGED <<batchVars, previewVars, engineVars, singleVars, svEngine, svReqs>>

\* Faulty variant: the server is stopped without waiting for its handlers.
ShutdownNoDrain ==
    /\ svPc = "stopping"
    /\ svPc' = "stopped"
    /\ UNCHANGED <<batchVars, previewVars, engineVars, singleVars, svEngine, svReqs>>

\* srv.Shutdown(ctx) returns nil: every handler has returned.
ShutdownOK ==
    /\ svPc = "stopping"
    /\ \A r \in Requests : svReqs[r].phase # "running"
    /\ svPc' = "stopped"
    /\ UNCHANGED <<batchVars, previewVars, engineVars, singleVars, svEngine, svReqs>>

\* srv.Shutdown(ctx) returns the context's error after 30 s with a handler
\* still running: log.Fatalf ends the process, no deferred call runs.
ShutdownTimeout ==
    /\ svPc = "stopping"
    /\ \E r \in Requests : svReqs[r].phase = "running"
    /\ svPc' = "killed"
    /\ UNCHANGED <<batchVars, previewVars, engineVars, singleVars, svEngine, svReqs>>

\* main returns: the deferred engine.Close() runs.
CloseEngine ==
    /\ svPc = "stopped"
    /\ svEngine' = "closed"
    /\ svPc' = "exited"
    /\ UNCHANGED <<batchVars, previewVars, engineVars, singleVars, svReqs>>

NextServer ==
    \/ StartEngine
    \/ ListenFail
    \/ Signal
    \/ ShutdownOK
    \/ ShutdownTimeout
    \/ CloseEngine
    \/ \E r \in Requests :
         \/ Accept(r)
         \/ Admit(r)
         \/ EnterEngine(r)
         \/ SkipEngine(r)
         \/ LeaveEngine(r)
         \/ Answer(r)

SpecServer == InitServer /\ [][NextServer]_vars

\* ------------------------------------------------------------ vocabulary
Returned(i) == pc[i] \in {"release", "wgdone", "exited"}
InEngine(i) == pc[i] \in {"entry", "setimage", "getboxes"}
EngineWork(i) == pc[i] \in {"setimage", "getboxes"}
NotStarted(i) == pc[i] \in {"idle", "spawned", "open", "decode", "entry"}
CtxErrors == {CtxError("canceled"), CtxError("deadline")}
EngineErrors ==
    CtxErrors \cup {"OCR failed: failed to set image",
                    "OCR failed: failed to get bounding boxes"}
Reported == response.status = StatusOK

\* The worker is between "semaphore <- struct{}{}" and the deferred "<-semaphore".
HoldsSlot(i) ==
    pc[i] \in {"open", "decode", "entry", "setimage", "getboxes", "persist", "release"}

\* The fixed part of a failure message, before the colon: the only coarse
\* classification a BatchResult carries (it has no category field).
MessagePrefix(msg) ==
    CASE msg = "Failed to open file" -> "Failed to open file"
      [] msg = "Invalid image" -> "Invalid image"
      [] msg \in EngineErrors -> "OCR failed"
      [] OTHER -> ""

\* The cause a failure message tells when it is read in full.
CauseOf(msg) ==
    CASE msg = "Failed to open file" -> "open-error"
      [] msg = "Invalid image" -> "decode-error"
      [] msg = CtxError("deadline") -> "timeout"
      [] msg = CtxError("canceled") -> "cancelled"
      [] msg \in EngineErrors -> "engine-error"
      [] OTHER -> ""

\* The boxes whose word holds a character that is not white space.
NonBlank(boxes) ==
    SelectSeq(boxes, LAMBDA b : \E p \in 1..Len(b.Word) : ~IsSpace(b.Word[p]))

\* text is word without the white space at its two ends.
IsTrimOf(text, word) ==
    /\ text # <<>>
    /\ ~IsSpace(text[1])
    /\ ~IsSpace(text[Len(text)])
    /\ \E a \in 1..Len(word) :
         /\ text = SubSeq(word, a, a + Len(text) - 1)
         /\ \A p \in 1..Len(word) : (p < a \/ p >= a + Len(text)) => IsSpace(word[p])

\* Number of characters before the k-th part in the parts joined by one space.
RECURSIVE StartOf(_, _)
StartOf(parts, k) ==
    IF k = 1 THEN 0 ELSE StartOf(parts, k - 1) + Len(parts[k - 1]) + 1

\* text is the parts in order with exactly one space between neighbours.
IsJoined(text, parts) ==
    IF parts = <<>> THEN text = <<>>
    ELSE /\ Len(text) = StartOf(parts, Len(parts)) + Len(parts[Len(parts)])
         /\ \A k \in 1..Len(parts) :
              /\ SubSeq(text, StartOf(parts, k) + 1, StartOf(parts, k) + Len(parts[k])) = parts[k]
              /\ k > 1 => IsSpace(text[StartOf(parts, k)])

\* ----------------------------------------------------------------- claims
\* C1: the results keep the order of the files, whatever order the workers
\* finish in: every slot a worker has filled carries the outcome made for the
\* file of that index (its Filename is files[i], on success and on failure),
\* no slot is filled for a worker that has not returned, and the report holds
\* one outcome per file, in the order of the files.
OrderPreserved ==
    /\ \A i \in DOMAIN results :
         IF Returned(i) THEN results[i].Filename = files[i]
         ELSE results[i] = ZeroResult
    /\ Reported =>
         /\ Len(response.Results) = Len(files)
         /\ \A i \in Workers : response.Results[i].Filename = files[i]

\* C1 witness: the second file's worker has stored its outcome and left
\* before the first file's worker has opened its file.
OutOfOrderCompletion ==
    /\ Len(files) >= 2
    /\ pc[2] = "exited"
    /\ pc[1] = "open"
    /\ results[2].Filename = files[2]

\* C2: never more workers inside the engine call than the gate has slots,
\* for every capacity the model is run with (up to the 4 of the source).
ConcurrencyCeiling ==
    /\ Cardinality({i \in Workers : InEngine(i)}) <= capacity
    /\ capacity <= maxConcurrency

\* C2 witness: the gate is full, a worker is inside the engine call and
\* another one waits for a slot.
GateBlocks ==
    /\ semaphore = capacity
    /\ \E i \in Workers : EngineWork(i)
    /\ \E j \in Workers : pc[j] = "spawned"

\* C3: when the engine call of exactly one item k fails and all the other
\* items succeed, the report counts one failure and N-1 successes and every
\* other item carries the lines and the preview of its own image.
FailureIsolation ==
    Reported =>
      \A k \in Workers :
        ( /\ response.Results[k].Error \in EngineErrors
          /\ \A j \in Workers \ {k} : response.Results[j].Success )
        => /\ response.FailureCount = 1
           /\ response.SuccessCount = Len(files) - 1
           /\ \A j \in Workers \ {k} :
                /\ response.Results[j].Lines = DetailedResult(j).TotalLines
                /\ response.Results[j].Preview = PreviewOf(DetailedResult(j).FullText)

\* C4: in every report success_count + failure_count = total_files =
\* length(results) = number of uploaded files, and no outcome is missing.
CountInvariant ==
    Reported =>
      /\ response.SuccessCount + response.FailureCount = response.TotalFiles
      /\ response.TotalFiles = Len(response.Results)
      /\ Len(response.Results) = Len(files)
      /\ \A i \in Workers : response.Results[i] # ZeroResult

\* C4 witness: a report that mixes a success and a failure.
MixedReport ==
    /\ Reported
    /\ response.SuccessCount >= 1
    /\ response.FailureCount >= 1

\* C5: an item whose own 30 s deadline passes while its engine call is
\* still running ends, when the call returns, as a failure of the engine
\* call (with the timeout reason, or with the engine's own error if the
\* engine itself failed), never as a success.
TimeoutIsolation ==
    [][\A i \in Workers :
         ( /\ EngineWork(i)
           /\ itemCtx[i] = "deadline"
           /\ reqCtx = "active"
           /\ ~EngineWork(i)' )
         => /\ pc'[i] = "release"
            /\ ~results'[i].Success
            /\ results'[i].Error \in EngineErrors]_vars

EmptyBatchRejected ==
    (formOK /\ Len(files) = 0) =>
      /\ response \in {NoResponse, ErrorResponse(StatusBadRequest, "No files uploaded")}
      /\ pcMain = "done" => response.status = StatusBadRequest
      /\ wg = 0
      /\ semaphore = 0
      /\ clientImg = 0
      /\ results = <<>>
      /\ outputs = {}

\* C7 witness: the empty batch has been answered.
EmptyBatchAnswered ==
    /\ formOK
    /\ Len(files) = 0
    /\ response.status = StatusBadRequest
    /\ response.error = "No files uploaded"

\* C8: the counts are computed and the response is written only after every
\* worker has stored its outcome and exited; then no slot is held; and while
\* workers may still run nothing has been written to the response.
BarrierBeforeReport ==
    /\ (pcMain = "count" \/ Reported) =>
         /\ \A i \in Workers : pc[i] = "exited" /\ results[i] # ZeroResult
         /\ semaphore = 0
         /\ wg = 0
    /\ pcMain \in {"parse", "dispatch", "wait", "count"} => response = NoResponse

\* C8 witness: the barrier has let the handler through with all the workers
\* of a full batch gone, the response not yet written.
BarrierPassed ==
    /\ pcMain = "count"
    /\ Len(files) = MaxFiles
    /\ \A i \in Workers : pc[i] = "exited"

\* C9: under the fairness of FairSpec every dispatched batch is answered
\* with all its outcomes: every worker gets a slot, returns and gives the
\* slot back, for every capacity, the gate of one slot included.
BatchCompletes ==
    (pcMain = "dispatch") ~>
        ( /\ Reported
          /\ Len(response.Results) = Len(files)
          /\ semaphore = 0
          /\ \A i \in Workers : pc[i] = "exited" /\ response.Results[i] # ZeroResult )

\* C9 witness: a full batch answered through the gate of one slot.
SerialBatchDone ==
    /\ capacity = 1
    /\ Len(files) = MaxFiles
    /\ Reported
    /\ \A i \in Workers : pc[i] = "exited"

CancelledReportedAsCancelled ==
    [][\A i \in Workers :
         (reqCtx = "canceled" /\ NotStarted(i) /\ Returned(i)')
         => results'[i] = Failure(i, CtxError("canceled"))]_vars

\* C11 amended: such an item comes back as a failure in its own slot, never
\* as a success and never dropped: with the error of its context when it
\* reaches the engine's entry check ("context canceled", or "context
\* deadline exceeded" when its own timer had fired before), and with the
\* open or decode failure when its file cannot be opened or decoded.
CancelledReportedAsFailure ==
    /\ [][\A i \in Workers :
            (reqCtx = "canceled" /\ NotStarted(i) /\ Returned(i)')
            => /\ results'[i] \in
                    {Failure(i, "Failed to open file"), Failure(i, "Invalid image"),
                     Failure(i, CtxError("canceled")), Failure(i, CtxError("deadline"))}
               /\ pc[i] = "entry" => results'[i] = Failure(i, CtxError(itemCtx[i]))]_vars
    /\ [][\A i \in Workers :
            (reqCtx = "canceled" /\ NotStarted(i)) => (NotStarted(i)' \/ Returned(i)')]_vars
    /\ [](Reported /\ reqCtx = "canceled" =>
            \A i \in Workers : response.Results[i].Filename = files[i])

\* C11 witness: the request was cancelled and the report holds an item
\* refused with "context canceled" next to one that failed at opening.
CancelledItemsInReport ==
    /\ Reported
    /\ reqCtx = "canceled"
    /\ \E i \in Workers : response.Results[i].Error = CtxError("canceled")
    /\ \E j \in Workers : response.Results[j].Error = "Failed to open file"

\* C12: every result processFile has returned carries exactly one tag:
\* Success with an empty Error, or no Success with a non-empty Error and then
\* no preview, no line count and no output file.
OutcomeTagInvariant ==
    \A i \in DOMAIN results :
      Returned(i) =>
        \/ results[i].Success /\ results[i].Error = ""
        \/ /\ ~results[i].Success
           /\ results[i].Error # ""
           /\ results[i].Preview = <<>>
           /\ results[i].Lines = 0
           /\ results[i].OutputFile = ""

\* C12 witness: a saved success and a failure have both been returned.
BothTagsReturned ==
    /\ \E i \in Workers : Returned(i) /\ results[i].Success /\ results[i].OutputFile # ""
    /\ \E j \in Workers : Returned(j) /\ results[j].Error # ""

\* C13: the preview of a text of more than 100 characters is its first 100
\* characters followed by "..."; the preview of a text of 100 characters or
\* fewer is the text itself.
PreviewTruncation ==
    pvPc = "done" =>
      pvPreview = IF Len(pvText) > PreviewLimit
                  THEN Utf8String(SubSeq(pvText, 1, PreviewLimit)) \o TruncationMarker
                  ELSE Utf8String(pvText)

\* C14: when the engine call has succeeded, the item is returned as a
\* success with the line count and the preview of the engine's result
\* whether or not its result file could be created; without the file its
\* OutputFile is empty, with it it names the file; and the report counts as
\* successes exactly the items that met no error, saved or not.
PersistenceNonFatal ==
    /\ [][\A i \in Workers :
            (pc[i] = "persist" /\ Returned(i)')
            => /\ results'[i].Success
               /\ results'[i].Error = ""
               /\ results'[i].Lines = ocrResult[i].TotalLines
               /\ results'[i].Preview = PreviewOf(ocrResult[i].FullText)
               /\ results'[i].OutputFile = (IF i \in outputs' THEN OutputName ELSE "")]_vars
    /\ [](Reported =>
            /\ response.SuccessCount =
                 Cardinality({i \in Workers : response.Results[i].Error = ""})
            /\ \A i \in Workers :
                 (response.Results[i].Error = "" /\ i \notin outputs)
                 => response.Results[i].Success /\ response.Results[i].OutputFile = "")

\* C14 witness: the report counts as a success an item with recognized
\* lines whose result file could not be created.
UnsavedSuccessReported ==
    /\ Reported
    /\ \E i \in Workers :
         /\ i \notin outputs
         /\ response.Results[i].Success
         /\ response.Results[i].Lines > 0
         /\ response.Results[i].OutputFile = ""
    /\ response.SuccessCount >= 1

\* C15: every failure carries a message and a coarse category, and the
\* category tells a decode error from an engine error from a timeout from a
\* cancellation: two failures of different causes among these never carry
\* the same category.
CategoryTellsCauses ==
    \A i, j \in DOMAIN results :
      ( /\ Returned(i) /\ ~results[i].Success
        /\ Returned(j) /\ ~results[j].Success
        /\ CauseOf(results[i].Error) # "open-error"
        /\ CauseOf(results[j].Error) # "open-error"
        /\ CauseOf(results[i].Error) # CauseOf(results[j].Error) )
      => /\ MessagePrefix(results[i].Error) # ""
         /\ MessagePrefix(results[i].Error) # MessagePrefix(results[j].Error)

\* C15 amended: every failure carries, in its own slot, a message whose
\* fixed prefix tells the step that failed: "Failed to open file" for the
\* open, "Invalid image" for the decode, "OCR failed" for the engine call;
\* a timeout and a cancellation are engine-call failures too, told from
\* an engine error only by the context's error in the rest of the message.
PrefixTellsStep ==
    /\ [][\A i \in Workers :
            (~Returned(i) /\ Returned(i)' /\ ~results'[i].Success)
            => /\ results'[i].Filename = files[i]
               /\ MessagePrefix(results'[i].Error) =
                    (CASE pc[i] = "open" -> "Failed to open file"
                       [] pc[i] = "decode" -> "Invalid image"
                       [] OTHER -> "OCR failed")
               /\ CauseOf(results'[i].Error) \in {"timeout", "cancelled"} <=> pc[i] = "entry"
               /\ pc[i] = "entry" =>
                    CauseOf(results'[i].Error) =
                      (IF itemCtx[i] = "deadline" THEN "timeout" ELSE "cancelled")]_vars
    /\ [](\A i \in DOMAIN results :
            (Returned(i) /\ ~results[i].Success) => CauseOf(results[i].Error) # "")

\* C15 witness: a timeout and a decode error have been returned in one batch.
TimeoutAndDecodeError ==
    /\ \E i \in Workers : Returned(i) /\ CauseOf(results[i].Error) = "timeout"
    /\ \E j \in Workers : Returned(j) /\ CauseOf(results[j].Error) = "decode-error"

\* C16: a worker holds a slot only around its engine call: a worker that is
\* opening or decoding its file, or writing its result file, holds none, so
\* the slots held are never more than the workers in the engine call or
\* back from it and about to release.
SlotOnlyAroundEngineCall ==
    semaphore <= Cardinality({i \in Workers : InEngine(i) \/ pc[i] = "release"})

\* C16 amended: a worker holds its slot around the whole of processFile: the
\* slot is taken before the file is opened and given back after the result
\* is stored, so a worker that is opening, decoding or writing its result
\* file holds a slot, and no step in between gives it back.
SlotAroundProcessFile ==
    /\ [][\A i \in Workers :
            /\ (pc[i] = "spawned" /\ pc'[i] # "spawned")
                 => (pc'[i] = "open" /\ semaphore' = semaphore + 1)
            /\ (pc[i] \in {"open", "decode", "entry", "setimage", "getboxes", "persist"}
                /\ pc'[i] # pc[i])
                 => (HoldsSlot(i)' /\ semaphore' = semaphore)
            /\ (pc[i] = "release" /\ pc'[i] # "release")
                 => (Returned(i)' /\ results'[i] = results[i]
                     /\ semaphore' = semaphore - 1)]_vars
    /\ [](semaphore >= Cardinality({i \in Workers : pc[i] \in {"open", "decode", "persist"}}))

\* C16 witness: with the gate full, a slot is held by a worker writing its
\* result file and no worker is in the engine call.
SlotHeldWhilePersisting ==
    /\ semaphore = capacity
    /\ \E i \in Workers : pc[i] = "persist"
    /\ \A j \in Workers : ~InEngine(j)

\* C17: the slots held are the workers that acquired and did not release
\* yet, never more than the capacity; a worker acquires once and releases
\* once, whatever the outcome of its file; no slot is held when the batch
\* has completed.
SlotAccounting ==
    /\ [](/\ semaphore = Cardinality({i \in Workers : HoldsSlot(i)})
          /\ semaphore <= capacity
          /\ pcMain \in {"count", "done"} =>
               (semaphore = 0 /\ \A i \in Workers : pc[i] = "exited"))
    /\ [][\A i \in Workers :
            /\ (~HoldsSlot(i) /\ HoldsSlot(i)') => pc[i] = "spawned"
            /\ (HoldsSlot(i) /\ ~HoldsSlot(i)') => (pc[i] = "release" /\ pc'[i] = "wgdone")
            /\ pc[i] \in {"wgdone", "exited"} => pc'[i] \in {"wgdone", "exited"}
            /\ (~Returned(i) /\ Returned(i)') => pc'[i] = "release"]_vars

\* C17 witness: the batch has completed with an open failure, a decode
\* failure or an engine failure next to a success, on two slots.
AllPathsReleased ==
    /\ Reported
    /\ semaphore = 0
    /\ \E i, j \in Workers :
         /\ response.Results[i].Success
         /\ response.Results[j].Error \in {"Failed to open file", "Invalid image"} \cup EngineErrors

\* C18: the workers share no mutable state but the results: no worker
\* writes the engine's client while another worker is using it.
NoSharedEngineState ==
    [][\A i, j \in Workers :
         (i # j /\ pc[j] = "getboxes" /\ pc[i] = "setimage")
         => clientImg' = clientImg]_vars

\* C19: the boxes and text a worker gets back are the ones recognized from
\* the image it passed in.
PerCallIntegrity ==
    \A i \in Workers : pc[i] = "persist" => ocrResult[i] = DetailedResult(i)

\* C20: each index of results is written once, by its own worker, in the
\* step that ends its processFile; a slot is not modified afterwards, and
\* results is read only when every worker has written and exited.
WriteOnceSlots ==
    /\ [][\A k \in DOMAIN results \cap DOMAIN results' :
            /\ results'[k] # results[k]
                 => (results[k] = ZeroResult /\ ~Returned(k) /\ Returned(k)')
            /\ (~Returned(k) /\ Returned(k)')
                 => (results'[k] # ZeroResult /\ results'[k].Filename = files[k])
            /\ Returned(k) => Returned(k)']_vars
    /\ [](\A k \in DOMAIN results : ~Returned(k) => results[k] = ZeroResult)
    /\ [](pcMain \in {"count", "done"} => \A k \in DOMAIN results : pc[k] = "exited")
    /\ [](Reported => response.Results = results)

\* C20 witness: one worker has written its slot and exited while the other
\* is still in the engine with its slot untouched.
OneSlotWritten ==
    \E i, j \in Workers :
        /\ pc[i] = "exited" /\ results[i] # ZeroResult
        /\ EngineWork(j) /\ results[j] = ZeroResult

\* C22: when the request's context has expired or was cancelled, every item
\* that has not completed its engine call ends as a failure: none of them
\* completes the call and goes on to a success; the items that have
\* returned keep their outcome.
RequestDeadlineFailsUnfinished ==
    [][\A i \in Workers :
         /\ (reqCtx # "active"
             /\ pc[i] \in {"spawned", "open", "decode", "entry", "setimage", "getboxes"}
             /\ pc'[i] # pc[i])
              => (pc'[i] # "persist" /\ (Returned(i)' => ~results'[i].Success))
         /\ Returned(i) => (Returned(i)' /\ results'[i] = results[i])]_vars

\* C23: an item has a context of its own only from the moment it reaches
\* the engine call (none while it waits for a slot, opens or decodes), that
\* context is born in the state of the request's context and never outlives
\* it, and the timer of one item ends the context of that item alone.
IndependentItemDeadline ==
    /\ [](\A i \in Workers :
            /\ pc[i] \in {"idle", "spawned", "open", "decode"} => itemCtx[i] = "none"
            /\ itemCtx[i] = "active" => reqCtx = "active")
    /\ [][\A i \in Workers :
            /\ (pc[i] = "decode" /\ pc'[i] = "entry") => itemCtx'[i] = reqCtx
            /\ (itemCtx[i] = "active" /\ itemCtx'[i] = "deadline" /\ reqCtx' = reqCtx)
                 => \A j \in Workers \ {i} : itemCtx'[j] = itemCtx[j]]_vars

\* C23 witness: one item's timer has fired while another item's context and
\* the request's context are alive.
OneTimerFired ==
    \E i, j \in Workers :
        /\ itemCtx[i] = "deadline"
        /\ itemCtx[j] = "active"
        /\ reqCtx = "active"

\* C24: in every report success_count is the number of outcomes tagged
\* Success and failure_count the number of the others, and the step that
\* assembles the report leaves every outcome as it was.
ReportCountsMatchTags ==
    /\ [](Reported =>
            /\ response.SuccessCount =
                 Cardinality({i \in DOMAIN response.Results : response.Results[i].Success})
            /\ response.FailureCount =
                 Cardinality({i \in DOMAIN response.Results : ~response.Results[i].Success})
            /\ response.Results = results)
    /\ [][pcMain = "count" => results' = results]_vars

\* C24 witness: a report of one failure and one success whose result file
\* could not be saved.
TagsCounted ==
    /\ Reported
    /\ response.SuccessCount = 1
    /\ response.FailureCount = 1
    /\ \E i \in Workers : response.Results[i].Success /\ response.Results[i].OutputFile = ""

SingleFailsBeforeSideEffect ==
    shPc = "done" =>
        LET reachesEngine == shIn.formOK /\ shIn.hasFile /\ shIn.decodes
            engineOK == shIn.ctx = "active" /\ shIn.engine = "ok"
        IN  /\ ~reachesEngine =>
                 /\ shResponse.status = StatusBadRequest
                 /\ shResponse.error \in {"Failed to parse form", "No file uploaded",
                                          "Invalid image file"}
                 /\ shEngineCalls = 0
                 /\ shOutputs = {}
            /\ (reachesEngine /\ ~engineOK) =>
                 /\ shResponse.status = StatusInternalServerError
                 /\ shResponse.error \in EngineErrors
                 /\ shEngineCalls = 1
                 /\ shOutputs = {}
            /\ (reachesEngine /\ engineOK /\ shKind = "extract") =>
                 /\ shResponse = SingleOK(DetailedResult(shIn.img))
                 /\ shOutputs = (IF shIn.createOK THEN {"ocr_uuid.json"} ELSE {})

\* C28 witness: ExtractText has answered 200 with the result although its
\* result file could not be created.
ExtractAnsweredUnsaved ==
    /\ shPc = "done"
    /\ shKind = "extract"
    /\ ~shIn.createOK
    /\ shResponse.status = StatusOK
    /\ shResponse.body.TotalLines > 0
    /\ shOutputs = {}

\* C21: at any instant at most 4 calls of ExtractTextWithBoxes are active on
\* the process-wide engine, however many batch requests are served at once.
EngineUsageBounded == EngineCalls(MaxRequests) <= maxConcurrency

====
